---- MODULE Spec2Model ----
(***************************************************************************)
(* A model of app.py: the POST /search handler (search_endpoint), the      *)
(* login routine (login_linkedin), the scroll/extract collector            *)
(* (search_and_collect_profiles) and the per-profile check                 *)
(* (detect_resume_worker) run on a ThreadPoolExecutor.                     *)
(*                                                                         *)
(* The browser is the environment: every wait, navigation, DOM read and    *)
(* quit is an observation drawn from a small set.  A WebDriver session is  *)
(* "none" (never created), "live" (browser process running) or "quit"      *)
(* (driver.quit() was invoked on it).                                      *)
(***************************************************************************)
EXTENDS Integers, Sequences, FiniteSets, TLC

(***************************************************************************)
(* Bounds of the model.                                                    *)
(***************************************************************************)
\* largest max_profiles a caller supplies (requests draw from -1..MaxProfilesIn)
MaxProfilesIn == 3
\* document.body.scrollHeight takes the values 1..MaxHeight
MaxHeight == 2
\* result rows one extraction pass finds
MaxRows == 2
\* tokens of a profile page's source
MaxPageTokens == 2
\* tokens of one anchor's href
MaxHrefTokens == 1
\* anchors on a profile page
MaxAnchors == 2
\* rows of a results feed
MaxFeed == 4
\* results the aggregation specification gathers
MaxResults == 11
\* ... of which lists up to this length are gathered in every order
MaxShuffled == 3
\* candidates beyond the pool's size in the pool specification
PoolExtra == 1

(***************************************************************************)
(* Program constants.                                                      *)
(***************************************************************************)
MAX_PROFILES_DEFAULT == 20
MAX_WORKERS == 6
\* the literal 10 of results[:10]
PREVIEW_LENGTH == 10
\* the literal 30 of the collector's while condition
SCROLL_TRIES_LIMIT == 30

\* Python's None, for Optional[str] fields
None == "None"
\* no exception in flight
NoExc == [type |-> "none", status |-> 0, detail |-> ""]

Min(a, b) == IF a <= b THEN a ELSE b
Max(a, b) == IF a >= b THEN a ELSE b

\* all sequences over S of length 0..n
RECURSIVE SeqsUpTo(_, _)
SeqsUpTo(S, n) ==
    IF n <= 0 THEN {<<>>}
    ELSE LET shorter == SeqsUpTo(S, n - 1)
         IN  shorter \cup {Append(s, x) : s \in {t \in shorter : Len(t) = n - 1}, x \in S}

\* the elements of a sequence
Range(s) == {s[i] : i \in 1..Len(s)}

\* Python's s[:n], negative n included
Slice(s, n) ==
    IF n >= 0 THEN SubSeq(s, 1, Min(n, Len(s)))
    ELSE SubSeq(s, 1, Max(Len(s) + n, 0))

(***************************************************************************)
(* RESUME_REGEX.  A text is a sequence of tokens; re.search scans the      *)
(* whole text, and re.IGNORECASE compares case-folded.                     *)
(***************************************************************************)
Tokens == {".PDF", "cv", "x"}

Lower(t) ==
    CASE t = ".PDF" -> ".pdf"
      [] t = ".DOCX" -> ".docx"
      [] t = "Resume" -> "resume"
      [] t = "CV" -> "cv"
      [] OTHER -> t

\* the alternatives of r"\.pdf|\.docx|\.doc|resume|cv"
RESUME_ALTERNATIVES == {".pdf", ".docx", ".doc", "resume", "cv"}

RESUME_REGEX_search(text) == \E i \in 1..Len(text) : Lower(text[i]) \in RESUME_ALTERNATIVES

\* line 267: the two re.search calls on an href, joined by "or"
href_matches(href) ==
    \/ \E i \in 1..Len(href) : Lower(href[i]) \in {".pdf", ".docx", ".doc"}
    \/ \E i \in 1..Len(href) : Lower(href[i]) \in {"resume", "cv"}

(***************************************************************************)
(* login_linkedin.  env.fields: both login inputs appeared; env.search:    *)
(* the search input appeared after submitting; env.avatar: the 'Me' avatar *)
(* appeared.  The result names the state reached, whether credentials were *)
(* submitted, whether the avatar wait ran, and the exception raised.       *)
(***************************************************************************)
LoginEnvs == [fields : BOOLEAN, search : BOOLEAN, avatar : BOOLEAN]

RuntimeError(msg) == [type |-> "RuntimeError", status |-> 0, detail |-> msg]

login_linkedin_swallow(env) ==
    [state |-> IF env.fields /\ (env.search \/ env.avatar) THEN "Authenticated" ELSE "Failed",
     submitted |-> env.fields,
     avatar_consulted |-> env.fields /\ ~env.search,
     exc |-> NoExc]

login_linkedin(env) ==
    IF ~env.fields
    THEN [state |-> "Failed", submitted |-> FALSE, avatar_consulted |-> FALSE,
          exc |-> RuntimeError("Login page did not load or LinkedIn changed login selectors")]
    ELSE IF env.search
    THEN [state |-> "Authenticated", submitted |-> TRUE, avatar_consulted |-> FALSE,
          exc |-> NoExc]
    ELSE IF env.avatar
    THEN [state |-> "Authenticated", submitted |-> TRUE, avatar_consulted |-> TRUE,
          exc |-> NoExc]
    ELSE [state |-> "Failed", submitted |-> TRUE, avatar_consulted |-> TRUE,
          exc |-> RuntimeError("Login didn't complete - possible 2FA or blocking.")]

(***************************************************************************)
(* create_driver.  obs: whether webdriver.Chrome started.  Both callers    *)
(* treat whatever it raises as a plain Exception.                          *)
(***************************************************************************)
create_driver(obs) ==
    IF obs THEN [driver |-> "live", exc |-> NoExc]
    ELSE [driver |-> "none", exc |-> RuntimeError("Could not start chromedriver.")]

WebDriverException(msg) == [type |-> "WebDriverException", status |-> 0, detail |-> msg]

\* str(e)
str(e) == e.detail

(***************************************************************************)
(* detect_resume_worker.  The environment of one call:                     *)
(*   create_ok   webdriver.Chrome started                                  *)
(*   login       what login_linkedin observes                              *)
(*   nav_ok      driver.get(profile_url) returned                          *)
(*   page_ok     driver.page_source returned; page is its text             *)
(*   anchors_ok  driver.find_elements returned; anchors is what each       *)
(*               a.get_attribute("href") gives: it raises, gives None or   *)
(*               gives an href                                             *)
(*   quit_ok     driver.quit() returned                                    *)
(***************************************************************************)
AnchorObs(maxHref) ==
    {[kind |-> "raise", href |-> <<>>], [kind |-> "none", href |-> <<>>]}
        \cup {[kind |-> "href", href |-> h] : h \in SeqsUpTo(Tokens, maxHref)}

LoginOk == [fields |-> TRUE, search |-> TRUE, avatar |-> FALSE]

EnvOk == [create_ok |-> TRUE, login |-> LoginOk, nav_ok |-> TRUE, page_ok |-> TRUE,
          page |-> <<>>, anchors_ok |-> TRUE, anchors |-> <<>>, quit_ok |-> TRUE]

\* The environments: one failing observation at most before the page is read
\* (what follows a failure is never observed), then every page with every
\* anchor list, find_elements failing or not, driver.quit() failing or not.
WorkerEnvSet(maxPage, maxHref, maxAnchors) ==
    LET early == {[EnvOk EXCEPT !.create_ok = FALSE],
                  [EnvOk EXCEPT !.nav_ok = FALSE],
                  [EnvOk EXCEPT !.page_ok = FALSE]}
                 \cup {[EnvOk EXCEPT !.login = l] : l \in LoginEnvs}
        pages == {[EnvOk EXCEPT !.page = p] : p \in SeqsUpTo(Tokens, maxPage)}
        listed == {[e EXCEPT !.anchors = a] :
                     e \in pages, a \in SeqsUpTo(AnchorObs(maxHref), maxAnchors)}
        unlisted == {[e EXCEPT !.anchors_ok = FALSE] : e \in pages}
        base == early \cup pages \cup listed \cup unlisted
    IN  base \cup {[e EXCEPT !.quit_ok = FALSE] : e \in base}

\* lines 244-249
new_result(profile) ==
    [profile_url |-> profile.profile_url, resume_found |-> FALSE,
     resume_links |-> <<>>, error |-> None]

\* lines 263-270: the hrefs kept, in page order
RECURSIVE matching_links(_)
matching_links(anchors) ==
    IF anchors = <<>> THEN <<>>
    ELSE LET a == Head(anchors)
             href == IF a.kind = "href" THEN a.href ELSE <<>>
             rest == matching_links(Tail(anchors))
         IN  IF a.kind # "raise" /\ href_matches(href) THEN <<href>> \o rest ELSE rest

\* no dedupe: the list as it was built
dict_fromkeys_keep_all(links) == links

\* line 272: list(dict.fromkeys(links))
RECURSIVE dict_fromkeys(_)
dict_fromkeys(links) ==
    IF links = <<>> THEN <<>>
    ELSE LET init == dict_fromkeys(SubSeq(links, 1, Len(links) - 1))
             last == links[Len(links)]
         IN  IF last \in Range(init) THEN init ELSE Append(init, last)

\* the try block with the anchors listed before, and whatever, the page test
worker_try_links_unguarded(profile, env) ==
    LET result == new_result(profile)
        made == create_driver(env.create_ok)
        lg == login_linkedin(env.login)
        st(d, r, e) == [driver |-> d, result |-> r, exc |-> e]
    IN  IF made.exc # NoExc THEN st(made.driver, result, made.exc)
        ELSE IF lg.exc # NoExc THEN st("live", result, lg.exc)
        ELSE IF ~env.nav_ok THEN st("live", result, WebDriverException("navigation failed"))
        ELSE IF ~env.page_ok THEN st("live", result, WebDriverException("page_source failed"))
        ELSE IF ~env.anchors_ok
        THEN st("live", result, WebDriverException("find_elements failed"))
        ELSE st("live",
                [result EXCEPT !.resume_found = RESUME_REGEX_search(env.page),
                               !.resume_links = dict_fromkeys(matching_links(env.anchors))],
                NoExc)

\* the try block with result["resume_found"] = True moved above find_elements
worker_try_flag_first(profile, env) ==
    LET result == new_result(profile)
        made == create_driver(env.create_ok)
        lg == login_linkedin(env.login)
        st(d, r, e) == [driver |-> d, result |-> r, exc |-> e]
    IN  IF made.exc # NoExc THEN st(made.driver, result, made.exc)
        ELSE IF lg.exc # NoExc THEN st("live", result, lg.exc)
        ELSE IF ~env.nav_ok THEN st("live", result, WebDriverException("navigation failed"))
        ELSE IF ~env.page_ok THEN st("live", result, WebDriverException("page_source failed"))
        ELSE IF ~RESUME_REGEX_search(env.page) THEN st("live", result, NoExc)
        ELSE IF ~env.anchors_ok
        THEN st("live", [result EXCEPT !.resume_found = TRUE],
                WebDriverException("find_elements failed"))
        ELSE st("live",
                [result EXCEPT !.resume_found = TRUE,
                               !.resume_links = dict_fromkeys(matching_links(env.anchors))],
                NoExc)

\* lines 251-276: the try block; the exception it ends with, if any, is exc
worker_try(profile, env) ==
    LET result == new_result(profile)
        made == create_driver(env.create_ok)
        lg == login_linkedin(env.login)
        st(d, r, e) == [driver |-> d, result |-> r, exc |-> e]
    IN  IF made.exc # NoExc THEN st(made.driver, result, made.exc)
        ELSE IF lg.exc # NoExc THEN st("live", result, lg.exc)
        ELSE IF ~env.nav_ok THEN st("live", result, WebDriverException("navigation failed"))
        ELSE IF ~env.page_ok THEN st("live", result, WebDriverException("page_source failed"))
        ELSE IF ~RESUME_REGEX_search(env.page) THEN st("live", result, NoExc)
        ELSE IF ~env.anchors_ok
        THEN st("live", result, WebDriverException("find_elements failed"))
        ELSE st("live",
                [result EXCEPT !.resume_found = TRUE,
                               !.resume_links = dict_fromkeys(matching_links(env.anchors))],
                NoExc)

\* no except clause: the exception stays in flight
worker_except_missing(st) == st

\* lines 277-279: except Exception as e: result["error"] = str(e)
worker_except(st) ==
    IF st.exc = NoExc THEN st
    ELSE [st EXCEPT !.result.error = str(st.exc), !.exc = NoExc]

\* driver.quit() only when the try block ended normally
worker_finally_leak(st, quit_ok) ==
    IF st.driver = "none" \/ st.raised THEN st
    ELSE [st EXCEPT !.driver = "quit", !.quit_raised = ~quit_ok]

\* driver.quit() without the inner try/except: its exception leaves the function
worker_finally_unguarded(st, quit_ok) ==
    IF st.driver = "none" THEN st
    ELSE [st EXCEPT !.driver = "quit", !.quit_raised = ~quit_ok,
                    !.exc = IF quit_ok THEN st.exc ELSE WebDriverException("quit failed")]

\* lines 280-285: finally: quit the driver if one was created, swallowing
\* whatever quit raises
worker_finally(st, quit_ok) ==
    IF st.driver = "none" THEN st
    ELSE [st EXCEPT !.driver = "quit", !.quit_raised = ~quit_ok]

(***************************************************************************)
(* lines 239-286.  The outcome of a call: result is what it returns, exc   *)
(* the exception that leaves it instead (NoExc when it returns), driver    *)
(* the state of the session it created; raised (the try block ended with an *)
(* exception) and quit_raised (driver.quit() raised) are history.          *)
(***************************************************************************)
detect_resume_worker(profile, env) ==
    LET t == worker_try(profile, env)
        st0 == [driver |-> t.driver, result |-> t.result, exc |-> t.exc,
                raised |-> t.exc # NoExc, quit_raised |-> FALSE]
    IN  worker_finally(worker_except(st0), env.quit_ok)

(***************************************************************************)
(* search_and_collect_profiles: one result row as the extraction pass sees *)
(* it.  primary is what li.find_element(<class selector>) followed by      *)
(* get_attribute("href") gives, fallback the same for the row's first <a>: *)
(* Missing when either call raises, "" when the attribute is empty (an     *)
(* absent one, None, is as falsy), else a profile URL.  The fallback is    *)
(* read only when the primary raised.                                      *)
(***************************************************************************)
URLs == {"A", "B", "C"}
Missing == "<raises>"
Hrefs == URLs \cup {""}

Rows == {[primary |-> h, fallback |-> Missing] : h \in Hrefs}
            \cup {[primary |-> Missing, fallback |-> h] : h \in Hrefs \cup {Missing}}

Heights == 1..MaxHeight

\* "if href": None and "" are falsy
truthy(href) == href # None /\ href # ""

\* the href appended whether seen before or not
add_href_no_dedup(st, href) ==
    IF truthy(href)
    THEN [profiles |-> Append(st.profiles, [profile_url |-> href]),
          seen |-> st.seen \cup {href}]
    ELSE st

\* lines 212-214 and 219-221
add_href(st, href) ==
    IF truthy(href) /\ href \notin st.seen
    THEN [profiles |-> Append(st.profiles, [profile_url |-> href]),
          seen |-> st.seen \cup {href}]
    ELSE st

\* lines 209-223: the body of "for li in lis"
add_row(st, li) ==
    IF li.primary # Missing THEN add_href(st, li.primary)
    ELSE IF li.fallback # Missing THEN add_href(st, li.fallback)
    ELSE st

\* lines 207-208: the for loop goes on to the next row only below the cap
row_is_read(n, cap) == n < cap

\* the counter never reset: it counts every scroll
next_scroll_tries_no_reset(tries, last, new) == tries + 1

\* lines 229-233
next_scroll_tries(tries, last, new) == IF new = last THEN tries + 1 ELSE 0

\* line 204: the while condition
loop_continues(n, cap, tries) == n < cap /\ tries < SCROLL_TRIES_LIMIT

(***************************************************************************)
(* search_endpoint.                                                        *)
(***************************************************************************)
\* a request's max_profiles: absent (None), or an integer
Requests == {[given |-> FALSE, value |-> 0]}
                \cup {[given |-> TRUE, value |-> v] : v \in (-1)..MaxProfilesIn}

\* line 298: req.max_profiles or MAX_PROFILES_DEFAULT (None and 0 are falsy)
effective_max_profiles(r) ==
    IF ~r.given \/ r.value = 0 THEN MAX_PROFILES_DEFAULT ELSE r.value

HTTPException(code, msg) == [type |-> "HTTPException", status |-> code, detail |-> msg]
OSError(msg) == [type |-> "OSError", status |-> 0, detail |-> msg]

\* the generic handler first: every exception becomes a 500
search_endpoint_except_generic(e) == 500

\* lines 340-345: HTTPException is re-raised as it is, anything else
\* becomes HTTPException(500); the value is the status the caller gets
search_endpoint_except(e) == IF e.type = "HTTPException" THEN e.status ELSE 500

\* lines 346-351: finally: quit the primary driver if it was created
search_endpoint_finally(d) == IF d = "none" THEN d ELSE "quit"

NoResponse == [profiles_checked |-> 0, resumes_found |-> 0, results_preview |-> <<>>]

\* a submitted call that no pool thread has picked up
queued(profile) ==
    [pc |-> "queued", driver |-> "none", result |-> new_result(profile), exc |-> NoExc,
     raised |-> FALSE, collected |-> FALSE]

\* the worker environments drawn in a whole run: pages and hrefs of at most
\* one token, at most one anchor
RunWorkerEnvs == {e \in WorkerEnvSet(1, 1, 1) : e.create_ok}

VARIABLES
    pc,              \* where search_endpoint is
    req,             \* the request's max_profiles
    max_profiles,    \* line 298
    driver,          \* the primary session
    login_state,     \* where the primary login ended
    exc,             \* the exception raised in search_endpoint's try block
    http_status,     \* 0 while running, then 200, 404 or 500
    response,        \* the body of a completed response
    collect_called,  \* search_and_collect_profiles was invoked
    collect_returned,\* ... and returned
    profiles,        \* the collector's list
    seen,            \* the collector's set
    last_height,
    scroll_tries,
    rows_done,       \* rows of lis the running extraction pass has gone through
    candidates,      \* search_endpoint's profiles: what the collector returned
    workers,         \* the submitted detect_resume_worker calls, by position
    results,
    found_count,
    call,            \* a direct call of detect_resume_worker: <<[profile, env]>>
    ret              \* ... and what it gave: <<outcome>>

vars == <<pc, req, max_profiles, driver, login_state, exc, http_status, response,
          collect_called, collect_returned, profiles, seen, last_height, scroll_tries,
          rows_done, candidates, workers, results, found_count, call, ret>>

collector_vars == <<profiles, seen, last_height, scroll_tries, rows_done>>
pool_vars == <<workers, results, found_count>>
fn_vars == <<call, ret>>

Init ==
    /\ pc = "start"
    /\ req \in Requests
    /\ max_profiles = 0
    /\ driver = "none"
    /\ login_state = "Unauthenticated"
    /\ exc = NoExc
    /\ http_status = 0
    /\ response = NoResponse
    /\ collect_called = FALSE
    /\ collect_returned = FALSE
    /\ profiles = <<>>
    /\ seen = {}
    /\ last_height = 0
    /\ scroll_tries = 0
    /\ rows_done = 0
    /\ candidates = <<>>
    /\ workers = <<>>
    /\ results = <<>>
    /\ found_count = 0
    /\ call = <<>>
    /\ ret = <<>>

\* An exception e leaves the try block: the except clauses pick the status,
\* the finally clause quits the primary driver, the handler ends.
Fail(e, d) ==
    /\ exc' = e
    /\ http_status' = search_endpoint_except(e)
    /\ driver' = search_endpoint_finally(d)
    /\ pc' = "done"

\* lines 297-303
BeginRun ==
    /\ pc = "start"
    /\ max_profiles' = effective_max_profiles(req)
    /\ \E ok \in BOOLEAN :
         LET made == create_driver(ok)
         IN  IF made.exc # NoExc THEN Fail(made.exc, made.driver)
             ELSE /\ driver' = made.driver
                  /\ pc' = "login"
                  /\ UNCHANGED <<exc, http_status>>
    /\ UNCHANGED <<req, login_state, response, collect_called, collect_returned,
                   candidates, collector_vars, pool_vars, fn_vars>>

\* line 305
LoginPrimary ==
    /\ pc = "login"
    /\ \E env \in LoginEnvs :
         LET lg == login_linkedin(env)
         IN  /\ login_state' = lg.state
             /\ IF lg.exc # NoExc THEN Fail(lg.exc, driver)
                ELSE /\ pc' = "search"
                     /\ UNCHANGED <<exc, http_status, driver>>
    /\ UNCHANGED <<req, max_profiles, response, collect_called, collect_returned,
                   candidates, collector_vars, pool_vars, fn_vars>>

\* lines 307, 175-202: the call, the search input (by XPath, by placeholder,
\* or not found), the results list (awaited, its absence tolerated), and the
\* loop's initial state
SearchSubmit ==
    /\ pc = "search"
    /\ collect_called' = TRUE
    /\ \E input \in {"xpath", "placeholder", "absent"}, list_appeared \in BOOLEAN, h \in Heights :
         IF input = "absent"
         THEN /\ Fail(RuntimeError("Search input not found"), driver)
              /\ UNCHANGED collector_vars
         ELSE /\ profiles' = <<>>
              /\ seen' = {}
              /\ last_height' = h
              /\ scroll_tries' = 0
              /\ rows_done' = 0
              /\ pc' = "collect"
              /\ UNCHANGED <<exc, http_status, driver>>
    /\ UNCHANGED <<req, max_profiles, login_state, response, collect_returned,
                   candidates, pool_vars, fn_vars>>

\* The while loop of lines 204-233 is entered when its condition holds
\* (rows_done = 0: at the test) and then runs one pass to its end.
in_pass == rows_done > 0 \/ loop_continues(Len(profiles), max_profiles, scroll_tries)

\* lines 205-223: the pass reads the next row of lis, li; lis has at most
\* MaxRows rows, and the for loop breaks at the cap
CollectRowOn(li) ==
    /\ pc = "collect"
    /\ in_pass
    /\ rows_done < MaxRows
    /\ row_is_read(Len(profiles), max_profiles)
    /\ LET st == add_row([profiles |-> profiles, seen |-> seen], li)
       IN  /\ profiles' = st.profiles
           /\ seen' = st.seen
    /\ rows_done' = rows_done + 1
    /\ UNCHANGED <<pc, req, max_profiles, driver, login_state, exc, http_status, response,
                   collect_called, collect_returned, last_height, scroll_tries,
                   candidates, pool_vars>>

CollectRow == \E li \in Rows : CollectRowOn(li) /\ UNCHANGED fn_vars

\* lines 226-233: the pass is over (no row left, or the break): the scroll,
\* the new height, the stall counter; a WebDriver call that raises ends the run
CollectScroll ==
    /\ pc = "collect"
    /\ in_pass
    /\ \/ /\ Fail(WebDriverException("script failed"), driver)
          /\ UNCHANGED collector_vars
       \/ \E new_height \in Heights :
            /\ scroll_tries' = next_scroll_tries(scroll_tries, last_height, new_height)
            /\ last_height' = IF new_height = last_height THEN last_height ELSE new_height
            /\ rows_done' = 0
            /\ UNCHANGED <<pc, exc, http_status, driver, profiles, seen>>
    /\ UNCHANGED <<req, max_profiles, login_state, response, collect_called,
                   collect_returned, candidates, pool_vars, fn_vars>>

\* lines 235-236 and 308-309: the loop is over, the collector returns
\* profiles[:max_profiles] and its locals are gone; an empty list is the 404
CollectReturn ==
    /\ pc = "collect"
    /\ rows_done = 0
    /\ ~loop_continues(Len(profiles), max_profiles, scroll_tries)
    /\ collect_returned' = TRUE
    /\ candidates' = Slice(profiles, max_profiles)
    /\ profiles' = <<>>
    /\ seen' = {}
    /\ last_height' = 0
    /\ scroll_tries' = 0
    /\ rows_done' = 0
    /\ IF candidates' = <<>>
       THEN Fail(HTTPException(404, "No profiles found for the given query"), driver)
       ELSE /\ pc' = "dispatch"
            /\ UNCHANGED <<exc, http_status, driver>>
    /\ UNCHANGED <<req, max_profiles, login_state, response, collect_called,
                   pool_vars, fn_vars>>

\* lines 312-316: the executor is created and every candidate submitted
Dispatch ==
    /\ pc = "dispatch"
    /\ results' = <<>>
    /\ found_count' = 0
    /\ workers' = [i \in 1..Len(candidates) |-> queued(candidates[i])]
    /\ pc' = "gather"
    /\ UNCHANGED <<req, max_profiles, driver, login_state, exc, http_status, response,
                   collect_called, collect_returned, candidates, collector_vars, fn_vars>>

Running == {i \in DOMAIN workers : workers[i].pc = "running"}

\* a call whose try block raised is submitted again
done_worker_retry(out) ==
    IF out.raised THEN queued([profile_url |-> out.result.profile_url])
    ELSE [pc |-> "done", driver |-> out.driver, result |-> out.result, exc |-> out.exc,
          raised |-> out.raised, collected |-> FALSE]

\* a call that ended: what it returned or raised, and the session it leaves
done_worker(out) ==
    [pc |-> "done", driver |-> out.driver, result |-> out.result, exc |-> out.exc,
     raised |-> out.raised, collected |-> FALSE]

\* a pool whose threads are used once: a call is taken up only while fewer
\* than MAX_WORKERS calls were ever started
pool_threads_used_once(ws) ==
    Cardinality({i \in DOMAIN ws : ws[i].pc # "queued"}) < MAX_WORKERS

\* a pool without a thread limit: every submitted call gets a thread at once
pool_unbounded(ws) == TRUE

\* line 315: ThreadPoolExecutor(max_workers=MAX_WORKERS): a queued call is
\* taken up only while fewer than MAX_WORKERS calls are running
pool_has_idle_thread(ws) ==
    Cardinality({i \in DOMAIN ws : ws[i].pc = "running"}) < MAX_WORKERS

\* A pool thread takes the oldest queued call (the work queue is FIFO; the
\* pool has MAX_WORKERS threads) and runs it up to create_driver (line 252),
\* which starts (oks has TRUE) or not.  If create_driver raises, the call runs
\* to its return.
WorkerStartOn(i, oks) ==
    /\ pc = "gather"
    /\ workers[i].pc = "queued"
    /\ \A j \in 1..(i - 1) : workers[j].pc # "queued"
    /\ pool_has_idle_thread(workers)
    /\ \E ok \in oks :
         workers' = [workers EXCEPT ![i] =
                       IF ok THEN [@ EXCEPT !.pc = "running", !.driver = create_driver(ok).driver]
                       ELSE done_worker(detect_resume_worker(candidates[i],
                                                             [EnvOk EXCEPT !.create_ok = FALSE]))]
    /\ UNCHANGED <<pc, req, max_profiles, driver, login_state, exc, http_status, response,
                   collect_called, collect_returned, candidates, collector_vars,
                   results, found_count, fn_vars>>

WorkerStart(i) == WorkerStartOn(i, BOOLEAN)

\* lines 253-286: the rest of the call, to its return, in one of the
\* environments envs
WorkerFinishOn(i, envs) ==
    /\ pc = "gather"
    /\ workers[i].pc = "running"
    /\ \E env \in envs :
         workers' = [workers EXCEPT ![i] = done_worker(detect_resume_worker(candidates[i], env))]
    /\ UNCHANGED <<pc, req, max_profiles, driver, login_state, exc, http_status, response,
                   collect_called, collect_returned, candidates, collector_vars,
                   results, found_count, fn_vars>>

WorkerFinish(i) == WorkerFinishOn(i, RunWorkerEnvs)

\* every result counted, whatever its resume_found
count_result_any(found, res) == found + 1

\* lines 320-321: if res.get("resume_found"): found_count += 1
count_result(found, res) == IF res.resume_found THEN found + 1 ELSE found

\* lines 332-339: the body of a completed response
search_endpoint_response(res, found) ==
    [profiles_checked |-> Len(res),
     resumes_found |-> found,
     results_preview |-> Slice(res, PREVIEW_LENGTH)]

\* lines 317-322: as_completed yields a finished future; future.result()
\* returns the call's result or re-raises what the call raised
Gather(i) ==
    /\ pc = "gather"
    /\ exc = NoExc
    /\ workers[i].pc = "done"
    /\ ~workers[i].collected
    /\ workers' = [workers EXCEPT ![i].collected = TRUE]
    /\ IF workers[i].exc # NoExc
       THEN /\ exc' = workers[i].exc
            /\ UNCHANGED <<results, found_count>>
       ELSE /\ results' = Append(results, workers[i].result)
            /\ found_count' = count_result(found_count, workers[i].result)
            /\ UNCHANGED exc
    /\ UNCHANGED <<pc, req, max_profiles, driver, login_state, http_status, response,
                   collect_called, collect_returned, candidates, collector_vars, fn_vars>>

\* the block is left after the first result, with shutdown(wait=False)
with_block_left_early(ws, e) ==
    e # NoExc \/ \E i \in DOMAIN ws : ws[i].collected

\* lines 315-321: the with block is left when the as_completed loop has
\* yielded every future (or an exception e left the loop) and
\* executor.shutdown(wait=True) has seen every submitted call end
with_block_left(ws, e) ==
    /\ \A i \in DOMAIN ws : ws[i].pc = "done"
    /\ e # NoExc \/ \A i \in DOMAIN ws : ws[i].collected

\* line 315: the with block's exit, executor.shutdown(wait=True): every
\* submitted call has run to its end; an exception raised in the block goes on
ExecutorExit ==
    /\ pc = "gather"
    /\ with_block_left(workers, exc)
    /\ IF exc # NoExc THEN Fail(exc, driver)
       ELSE /\ pc' = "save"
            /\ UNCHANGED <<exc, http_status, driver>>
    /\ UNCHANGED <<req, max_profiles, login_state, response, collect_called,
                   collect_returned, candidates, collector_vars, pool_vars, fn_vars>>

\* lines 324-339 and 346-351: the CSV is written (or the write raises), the
\* response is built, the finally clause quits the primary driver
Respond ==
    /\ pc = "save"
    /\ \E saved \in BOOLEAN :
         IF ~saved
         THEN /\ Fail(OSError("cannot write the CSV"), driver)
              /\ UNCHANGED response
         ELSE /\ response' = search_endpoint_response(results, found_count)
              /\ http_status' = 200
              /\ driver' = search_endpoint_finally(driver)
              /\ pc' = "done"
              /\ UNCHANGED exc
    /\ UNCHANGED <<req, max_profiles, login_state, collect_called, collect_returned,
                   candidates, collector_vars, pool_vars, fn_vars>>

Next ==
    \/ BeginRun
    \/ LoginPrimary
    \/ SearchSubmit
    \/ CollectRow
    \/ CollectScroll
    \/ CollectReturn
    \/ Dispatch
    \/ \E i \in DOMAIN workers : WorkerStart(i)
    \/ \E i \in DOMAIN workers : WorkerFinish(i)
    \/ \E i \in DOMAIN workers : Gather(i)
    \/ ExecutorExit
    \/ Respond

\* One run of POST /search.
Spec == Init /\ [][Next]_vars

(***************************************************************************)
(* detect_resume_worker called once, on every environment.                 *)
(***************************************************************************)
InitWorker ==
    /\ pc = "call"
    /\ req = [given |-> FALSE, value |-> 0]
    /\ max_profiles = 0
    /\ driver = "none"
    /\ login_state = "Unauthenticated"
    /\ exc = NoExc
    /\ http_status = 0
    /\ response = NoResponse
    /\ collect_called = FALSE
    /\ collect_returned = FALSE
    /\ profiles = <<>>
    /\ seen = {}
    /\ last_height = 0
    /\ scroll_tries = 0
    /\ rows_done = 0
    /\ candidates = <<>>
    /\ workers = <<>>
    /\ results = <<>>
    /\ found_count = 0
    /\ call \in {<<[profile |-> [profile_url |-> u], env |-> e]>> :
                   u \in URLs, e \in WorkerEnvSet(MaxPageTokens, MaxHrefTokens, MaxAnchors)}
    /\ ret = <<>>

CallWorker ==
    /\ pc = "call"
    /\ ret' = <<detect_resume_worker(call[1].profile, call[1].env)>>
    /\ pc' = "returned"
    /\ UNCHANGED <<req, max_profiles, driver, login_state, exc, http_status, response,
                   collect_called, collect_returned, candidates, collector_vars,
                   pool_vars, call>>

SpecWorker == InitWorker /\ [][CallWorker]_vars

(***************************************************************************)
(* search_and_collect_profiles from the entry of its loop, on an           *)
(* authenticated primary session.  The thread that runs the loop is never  *)
(* suspended for good: each enabled step is eventually taken.              *)
(***************************************************************************)
InitCollect ==
    /\ pc = "collect"
    /\ req \in Requests
    /\ max_profiles = effective_max_profiles(req)
    /\ driver = "live"
    /\ login_state = "Authenticated"
    /\ exc = NoExc
    /\ http_status = 0
    /\ response = NoResponse
    /\ collect_called = TRUE
    /\ collect_returned = FALSE
    /\ profiles = <<>>
    /\ seen = {}
    /\ last_height \in Heights
    /\ scroll_tries = 0
    /\ rows_done = 0
    /\ candidates = <<>>
    /\ workers = <<>>
    /\ results = <<>>
    /\ found_count = 0
    /\ call = <<>>
    /\ ret = <<>>

NextCollect == CollectRow \/ CollectScroll \/ CollectReturn

SpecCollect == InitCollect /\ [][NextCollect]_vars /\ WF_vars(NextCollect)

(***************************************************************************)
(* The pool phase of a run whose collector returned up to                  *)
(* MAX_WORKERS + PoolExtra candidates: dispatch, the pool threads, the     *)
(* as_completed loop, the executor's exit and the response.  Every session *)
(* starts; the check of the candidate at an even position fails at         *)
(* navigation, the check at an odd position finds a resume link.           *)
(***************************************************************************)
PoolProfiles == <<"P01", "P02", "P03", "P04", "P05", "P06", "P07",
                  "P08", "P09", "P10", "P11", "P12", "P13">>

PoolWorkerEnvs(i) ==
    IF i % 2 = 0 THEN {[EnvOk EXCEPT !.nav_ok = FALSE]}
    ELSE {[EnvOk EXCEPT !.page = <<"cv">>,
                        !.anchors = <<[kind |-> "href", href |-> <<".PDF">>]>>]}

InitPool ==
    /\ pc = "dispatch"
    /\ req = [given |-> FALSE, value |-> 0]
    /\ max_profiles = effective_max_profiles(req)
    /\ driver = "live"
    /\ login_state = "Authenticated"
    /\ exc = NoExc
    /\ http_status = 0
    /\ response = NoResponse
    /\ collect_called = TRUE
    /\ collect_returned = TRUE
    /\ profiles = <<>>
    /\ seen = {}
    /\ last_height = 0
    /\ scroll_tries = 0
    /\ rows_done = 0
    /\ \E n \in 1..(MAX_WORKERS + PoolExtra) :
         candidates = [k \in 1..n |-> [profile_url |-> PoolProfiles[k]]]
    /\ workers = <<>>
    /\ results = <<>>
    /\ found_count = 0
    /\ call = <<>>
    /\ ret = <<>>

PoolStart(i) == WorkerStartOn(i, {TRUE})
PoolFinish(i) == WorkerFinishOn(i, PoolWorkerEnvs(i))

NextPool ==
    \/ Dispatch
    \/ \E i \in DOMAIN workers : PoolStart(i)
    \/ \E i \in DOMAIN workers : PoolFinish(i)
    \/ \E i \in DOMAIN workers : Gather(i)
    \/ ExecutorExit
    \/ Respond

SpecPool == InitPool /\ [][NextPool]_vars

\* The same with up to one candidate more than the pool has threads, under
\* fair scheduling: the pool threads and the request's thread are not
\* suspended for good and each step they start finishes, so as long as some
\* step of the run is possible a step is taken.
InitPoolFair == InitPool /\ Len(candidates) <= MAX_WORKERS + 1

SpecPoolFair == InitPoolFair /\ [][NextPool]_vars /\ WF_vars(NextPool)

(***************************************************************************)
(* The aggregation of lines 317-339 on its own: up to MaxResults calls,    *)
(* all of them ended (a session that started, then a failed navigation or  *)
(* a page with a resume link), are gathered and the response is built.     *)
(* as_completed yields them in any order when they are at most             *)
(* MaxShuffled, in submission order otherwise.                             *)
(***************************************************************************)
AggregateEnvs ==
    {[EnvOk EXCEPT !.nav_ok = FALSE],
     [EnvOk EXCEPT !.page = <<"cv">>, !.anchors = <<[kind |-> "href", href |-> <<".PDF">>]>>]}

InitAggregate ==
    /\ pc = "gather"
    /\ req = [given |-> FALSE, value |-> 0]
    /\ max_profiles = effective_max_profiles(req)
    /\ driver = "live"
    /\ login_state = "Authenticated"
    /\ exc = NoExc
    /\ http_status = 0
    /\ response = NoResponse
    /\ collect_called = TRUE
    /\ collect_returned = TRUE
    /\ profiles = <<>>
    /\ seen = {}
    /\ last_height = 0
    /\ scroll_tries = 0
    /\ rows_done = 0
    /\ \E n \in 1..MaxResults :
         /\ candidates = [k \in 1..n |-> [profile_url |-> PoolProfiles[k]]]
         /\ \E env \in [1..n -> AggregateEnvs] :
              workers = [k \in 1..n |->
                           done_worker(detect_resume_worker(candidates[k], env[k]))]
    /\ results = <<>>
    /\ found_count = 0
    /\ call = <<>>
    /\ ret = <<>>

GatherCompleted(i) ==
    /\ Len(candidates) <= MaxShuffled \/ \A j \in 1..(i - 1) : workers[j].collected
    /\ Gather(i)

NextAggregate ==
    \/ \E i \in DOMAIN workers : GatherCompleted(i)
    \/ ExecutorExit
    \/ Respond

SpecAggregate == InitAggregate /\ [][NextAggregate]_vars

(***************************************************************************)
(* search_and_collect_profiles on a given results feed: call holds the     *)
(* rows in the order the passes come to them, ret the rows read so far.    *)
(* The page grows at a scroll while rows are left and stays as it is once  *)
(* they are used up.                                                       *)
(***************************************************************************)
FeedRows ==
    {[primary |-> u, fallback |-> Missing] : u \in URLs}
        \cup {[primary |-> Missing, fallback |-> "A"], [primary |-> "", fallback |-> Missing]}

InitFeed ==
    /\ pc = "collect"
    /\ req \in Requests
    /\ max_profiles = effective_max_profiles(req)
    /\ driver = "live"
    /\ login_state = "Authenticated"
    /\ exc = NoExc
    /\ http_status = 0
    /\ response = NoResponse
    /\ collect_called = TRUE
    /\ collect_returned = FALSE
    /\ profiles = <<>>
    /\ seen = {}
    /\ last_height = 1
    /\ scroll_tries = 0
    /\ rows_done = 0
    /\ candidates = <<>>
    /\ workers = <<>>
    /\ results = <<>>
    /\ found_count = 0
    /\ call \in {<<[feed |-> f]>> : f \in SeqsUpTo(FeedRows, MaxFeed)}
    /\ ret = <<>>

FeedLeft == Len(ret) < Len(call[1].feed)

FeedRow ==
    /\ FeedLeft
    /\ CollectRowOn(call[1].feed[Len(ret) + 1])
    /\ ret' = Append(ret, call[1].feed[Len(ret) + 1])
    /\ UNCHANGED call

FeedScroll ==
    /\ CollectScroll
    /\ pc' = "collect" => scroll_tries' = IF FeedLeft THEN 0 ELSE scroll_tries + 1

NextFeed == FeedRow \/ FeedScroll \/ CollectReturn

SpecFeed == InitFeed /\ [][NextFeed]_vars

(***************************************************************************)
(* login_linkedin step by step, on one session.  call holds what the       *)
(* browser will show (obs: which of the username field, the password       *)
(* field, the search input and the avatar appear within the wait) and the  *)
(* timeout the caller passes (20 by default, 15 from a worker); ret is the *)
(* log of what the function did to the session so far; login_state is the  *)
(* state it is in; pc becomes "returned" or "raised" when it ends.         *)
(***************************************************************************)
LoginObs == [username : BOOLEAN, password : BOOLEAN, search : BOOLEAN, avatar : BOOLEAN]

InitLogin ==
    /\ pc = "login"
    /\ req = [given |-> FALSE, value |-> 0]
    /\ max_profiles = effective_max_profiles(req)
    /\ driver = "live"
    /\ login_state = "Unauthenticated"
    /\ exc = NoExc
    /\ http_status = 0
    /\ response = NoResponse
    /\ collect_called = FALSE
    /\ collect_returned = FALSE
    /\ profiles = <<>>
    /\ seen = {}
    /\ last_height = 0
    /\ scroll_tries = 0
    /\ rows_done = 0
    /\ candidates = <<>>
    /\ workers = <<>>
    /\ results = <<>>
    /\ found_count = 0
    /\ call \in {<<[obs |-> o, timeout |-> t]>> : o \in LoginObs, t \in {20, 15}}
    /\ ret = <<>>

\* the last thing done to the session
LastDone == IF ret = <<>> THEN "" ELSE ret[Len(ret)]

login_unchanged ==
    UNCHANGED <<req, max_profiles, driver, http_status, response, collect_called,
                collect_returned, candidates, collector_vars, pool_vars, call>>

\* the function ends by raising RuntimeError(msg)
LoginRaise(msg) ==
    /\ login_state' = "Failed"
    /\ exc' = RuntimeError(msg)
    /\ pc' = "raised"

\* line 144: driver.get(login page)
LoginGet ==
    /\ pc = "login"
    /\ ret = <<>>
    /\ ret' = <<"get">>
    /\ UNCHANGED <<pc, login_state, exc>>
    /\ login_unchanged

\* lines 145-146 and 148-150: the wait for the username field
LoginLocateUsername ==
    /\ pc = "login"
    /\ LastDone = "get"
    /\ ret' = Append(ret, "wait username")
    /\ IF call[1].obs.username THEN UNCHANGED <<pc, login_state, exc>>
       ELSE LoginRaise("Login page did not load or LinkedIn changed login selectors")
    /\ login_unchanged

\* lines 147-150: the wait for the password field
LoginLocatePassword ==
    /\ pc = "login"
    /\ LastDone = "wait username"
    /\ ret' = Append(ret, "wait password")
    /\ IF call[1].obs.password THEN UNCHANGED <<pc, login_state, exc>>
       ELSE LoginRaise("Login page did not load or LinkedIn changed login selectors")
    /\ login_unchanged

\* lines 152-156: the credentials are typed and submitted
LoginSubmit ==
    /\ pc = "login"
    /\ LastDone = "wait password"
    /\ ret' = Append(ret, "submit")
    /\ login_state' = "CredentialsSubmitted"
    /\ UNCHANGED <<pc, exc>>
    /\ login_unchanged

\* lines 159-160: the wait for the search input begins
LoginWaitSearch ==
    /\ pc = "login"
    /\ LastDone = "submit"
    /\ ret' = Append(ret, "wait search")
    /\ login_state' = "AwaitingPostLoginSignal"
    /\ UNCHANGED <<pc, exc>>
    /\ login_unchanged

\* lines 160-161 and 168-170: the search input appears and the function
\* returns True, or the wait times out
LoginSearchOutcome ==
    /\ pc = "login"
    /\ LastDone = "wait search"
    /\ IF call[1].obs.search
       THEN /\ login_state' = "Authenticated"
            /\ pc' = "returned"
            /\ UNCHANGED <<ret, exc>>
       ELSE /\ ret' = Append(ret, "timeout search")
            /\ UNCHANGED <<pc, login_state, exc>>
    /\ login_unchanged

\* the avatar wait whose timeout is passed over: the function returns True
LoginWaitAvatar_pass ==
    /\ pc = "login"
    /\ LastDone = "timeout search"
    /\ ret' = Append(ret, "wait avatar")
    /\ login_state' = "Authenticated"
    /\ pc' = "returned"
    /\ UNCHANGED exc
    /\ login_unchanged

\* lines 162-170: the fallback wait for the 'Me' avatar, and its outcome
LoginWaitAvatar ==
    /\ pc = "login"
    /\ LastDone = "timeout search"
    /\ ret' = Append(ret, "wait avatar")
    /\ IF call[1].obs.avatar
       THEN /\ login_state' = "Authenticated"
            /\ pc' = "returned"
            /\ UNCHANGED exc
       ELSE LoginRaise("Login didn't complete - possible 2FA or blocking.")
    /\ login_unchanged

NextLogin ==
    \/ LoginGet
    \/ LoginLocateUsername
    \/ LoginLocatePassword
    \/ LoginSubmit
    \/ LoginWaitSearch
    \/ LoginSearchOutcome
    \/ LoginWaitAvatar

SpecLogin == InitLogin /\ [][NextLogin]_vars

\* the steps end where login_linkedin(env) says, env being what obs shows
LoginStepsAgree ==
    (call # <<>> /\ pc \in {"returned", "raised"}) =>
        LET o == call[1].obs
            lg == login_linkedin([fields |-> o.username /\ o.password,
                                  search |-> o.search, avatar |-> o.avatar])
        IN  /\ login_state = lg.state
            /\ exc = lg.exc
            /\ ("submit" \in Range(ret)) = lg.submitted
            /\ ("wait avatar" \in Range(ret)) = lg.avatar_consulted

(***************************************************************************)
(* The claims.                                                             *)
(***************************************************************************)
Active == {i \in DOMAIN workers : workers[i].pc \in {"queued", "running"}}

\* C1: the primary session is quit before any profile check is dispatched:
\* in no state is the primary session live while a detect_resume_worker call
\* is submitted (queued) or running.
C1_PrimaryReleasedBeforeDispatch == ~(driver = "live" /\ Active # {})

\* C2: every session created is released on every exit path: a
\* detect_resume_worker call that has returned has no live session, and when
\* search_endpoint has ended (200, 404 or 500) neither the primary session
\* nor any worker session is live.
C2_SessionsReleased ==
    /\ \A i \in DOMAIN workers : workers[i].pc = "done" => workers[i].driver # "live"
    /\ pc = "done" => /\ driver # "live"
                      /\ \A i \in DOMAIN workers : workers[i].driver # "live"

\* a completed run in which one worker failed after creating its session and
\* another succeeded: all their sessions and the primary one are quit
C2_Witness ==
    /\ pc = "done"
    /\ http_status = 200
    /\ driver = "quit"
    /\ \E i, j \in DOMAIN workers :
         /\ workers[i].raised /\ workers[i].driver = "quit"
         /\ ~workers[j].raised /\ workers[j].driver = "quit"

\* the position of the worker that checked the profile of results[k]
WorkersOf(k) == {i \in DOMAIN workers : candidates[i].profile_url = results[k].profile_url}

\* C3: worker failures are isolated.  Once the pool is left, whatever subset
\* of the workers failed: every worker ran to its end (none was cancelled),
\* the result list has one entry per candidate dispatched, each entry is what
\* its own worker returned, an entry carries an error exactly when its worker
\* failed, and the run does not fail for it (it ends 200, or 500 only for the
\* CSV write).
C3_WorkerFailuresIsolated ==
    (pc \in {"save", "done"} /\ workers # <<>>) =>
        /\ \A i \in DOMAIN workers : workers[i].pc = "done"
        /\ Len(results) = Len(candidates)
        /\ \A i \in DOMAIN workers :
             \E k \in 1..Len(results) :
                /\ results[k] = workers[i].result
                /\ results[k].profile_url = candidates[i].profile_url
        /\ \A k \in 1..Len(results) :
             \A i \in WorkersOf(k) : (results[k].error # None) <=> workers[i].raised
        /\ pc = "done" => (http_status = 200 \/ (http_status = 500 /\ exc.type = "OSError"))

\* three workers, exactly one of which failed; the run completed, the other
\* two found a resume
C3_Witness ==
    /\ pc = "done"
    /\ http_status = 200
    /\ Len(candidates) = 3
    /\ Cardinality({i \in DOMAIN workers : workers[i].raised}) = 1
    /\ Cardinality({k \in 1..Len(results) : results[k].error # None}) = 1
    /\ response.profiles_checked = 3
    /\ response.resumes_found = 2

\* C4: every result detect_resume_worker returns, whichever step failed, has
\* resume_found false and resume_links empty when its error is set.
C4_ErrorMeansNoDetection ==
    ret # <<>> =>
        (ret[1].result.error # None =>
            /\ ret[1].result.resume_found = FALSE
            /\ ret[1].result.resume_links = <<>>)

\* the page matched the pattern and the anchor enumeration then failed
C4_Witness ==
    /\ ret # <<>>
    /\ RESUME_REGEX_search(call[1].env.page)
    /\ ~call[1].env.anchors_ok
    /\ ret[1].result.error # None
    /\ ~ret[1].result.resume_found

NoDuplicates(s) == \A i, j \in 1..Len(s) : s[i] = s[j] => i = j

\* C5: whatever the rows and whatever max_profiles, the list the collector
\* returns has no two entries with the same profile_url and at most
\* max_profiles entries.
C5_CandidatesUniqueAndCapped ==
    collect_returned =>
        /\ NoDuplicates([k \in 1..Len(candidates) |-> candidates[k].profile_url])
        /\ Len(candidates) <= max_profiles

\* C6: the scroll/extract loop ends, whatever heights and rows the page shows.
C6_CollectorTerminates == <>(pc # "collect")

\* C7: when the primary login ends Failed, the run has failed (500) with no
\* collection and no dispatch: search_and_collect_profiles was not invoked,
\* no detect_resume_worker was submitted, no worker session exists.
C7_LoginFailureAbortsRun ==
    login_state = "Failed" =>
        /\ pc = "done"
        /\ http_status = 500
        /\ ~collect_called
        /\ candidates = <<>>
        /\ workers = <<>>

\* credentials were submitted and neither post-login signal appeared
C7_Witness ==
    /\ login_state = "Failed"
    /\ exc = login_linkedin([fields |-> TRUE, search |-> FALSE, avatar |-> FALSE]).exc
    /\ http_status = 500
    /\ driver = "quit"

\* C8: an empty candidate list ends the run with 404 and no worker
\* dispatched; every other exception of the run (session creation, login,
\* search input) ends it with 500, and 404 is given for nothing else.
C8_NotFoundIs404 ==
    /\ (collect_returned /\ candidates = <<>>) =>
          (pc = "done" /\ http_status = 404 /\ workers = <<>>)
    /\ http_status = 404 => (collect_returned /\ candidates = <<>>)
    /\ (pc = "done" /\ exc.type \notin {"none", "HTTPException"}) => http_status = 500

\* the collector ran its loop to the stall bound and returned nothing
C8_Witness ==
    /\ pc = "done"
    /\ http_status = 404
    /\ collect_returned
    /\ max_profiles >= 1
    /\ driver = "quit"

\* C9: the max_profiles the collector is called with is at least 1 (a
\* request that is rejected never reaches the collector).
C9_MaxProfilesAtLeastOne == collect_called => max_profiles >= 1

\* what the environment makes fail before the finally clause
login_fails(l) == ~l.fields \/ (~l.search /\ ~l.avatar)

FailsInTry(env) ==
    \/ ~env.create_ok
    \/ login_fails(env.login)
    \/ ~env.nav_ok
    \/ ~env.page_ok
    \/ (RESUME_REGEX_search(env.page) /\ ~env.anchors_ok)

\* driver.quit() is reached (a driver exists) and raises
FailsInTeardown(env) == env.create_ok /\ ~env.quit_ok

\* the message of the step that fails
FailureMessage(env) ==
    IF ~env.create_ok THEN "Could not start chromedriver."
    ELSE IF ~env.login.fields
    THEN "Login page did not load or LinkedIn changed login selectors"
    ELSE IF login_fails(env.login) THEN "Login didn't complete - possible 2FA or blocking."
    ELSE IF ~env.nav_ok THEN "navigation failed"
    ELSE IF ~env.page_ok THEN "page_source failed"
    ELSE "find_elements failed"

\* C10 as claimed: detect_resume_worker never raises, and for a failure at
\* any step, session teardown included, the result it returns has the
\* candidate's profile_url and an error describing the failure.
C10_EveryFailureInError ==
    ret # <<>> =>
        LET env == call[1].env
            out == ret[1]
        IN  /\ out.exc = NoExc
            /\ out.result.profile_url = call[1].profile.profile_url
            /\ FailsInTry(env) => out.result.error = FailureMessage(env)
            /\ (FailsInTeardown(env) /\ ~FailsInTry(env)) => out.result.error # None

\* C10 amended: detect_resume_worker never raises and returns a result with
\* the candidate's profile_url; a failure of session creation, login,
\* navigation, page read or find_elements is described by error; a failure
\* of driver.quit() is swallowed and leaves error as it was (null when
\* nothing failed before).
C10_NeverRaises ==
    ret # <<>> =>
        LET env == call[1].env
            out == ret[1]
        IN  /\ out.exc = NoExc
            /\ out.result.profile_url = call[1].profile.profile_url
            /\ FailsInTry(env) => out.result.error = FailureMessage(env)
            /\ ~FailsInTry(env) => out.result.error = None

\* driver.quit() raised after a check that found a resume: the result is
\* returned with no error
C10_Witness ==
    /\ ret # <<>>
    /\ FailsInTeardown(call[1].env)
    /\ ret[1].quit_raised
    /\ ret[1].result.resume_found
    /\ ret[1].result.error = None
    /\ ret[1].exc = NoExc

\* C11: at any moment at most MAX_WORKERS detect_resume_worker calls are
\* running, and so at most MAX_WORKERS worker sessions are live, however many
\* candidates were dispatched (more than MAX_WORKERS included).
C11_AtMostMaxWorkersRunning ==
    /\ Cardinality(Running) <= MAX_WORKERS
    /\ Cardinality({i \in DOMAIN workers : workers[i].driver = "live"}) <= MAX_WORKERS

\* more candidates than pool threads: MAX_WORKERS calls run, each with its
\* session live, and a call is still queued
C11_Witness ==
    /\ Len(candidates) > MAX_WORKERS
    /\ Cardinality(Running) = MAX_WORKERS
    /\ Cardinality({i \in DOMAIN workers : workers[i].driver = "live"}) = MAX_WORKERS
    /\ \E i \in DOMAIN workers : workers[i].pc = "queued"

\* C12: in a completed response profiles_checked is the number of candidates
\* dispatched, resumes_found is the number of results whose resume_found is
\* true (a result carrying an error is not among them), whatever the order
\* the calls completed in, and results_preview is the first 10 entries of
\* the result list.
C12_ResponseCounts ==
    (pc = "done" /\ http_status = 200) =>
        LET found == {k \in 1..Len(results) : results[k].resume_found}
            failed == {k \in 1..Len(results) : results[k].error # None}
        IN  /\ response.profiles_checked = Len(candidates)
            /\ response.resumes_found = Cardinality(found)
            /\ found \cap failed = {}
            /\ response.resumes_found <= Len(results) - Cardinality(failed)
            /\ Len(response.results_preview) = Min(10, Len(results))
            /\ \A k \in 1..Len(response.results_preview) :
                 response.results_preview[k] = results[k]

\* more than 10 calls, some failed, some found a resume: the preview stops
\* at 10 and the failed ones are not counted
C12_Witness ==
    /\ pc = "done"
    /\ http_status = 200
    /\ Len(results) > 10
    /\ Len(response.results_preview) = 10
    /\ response.profiles_checked = Len(results)
    /\ \E k \in 1..Len(results) : results[k].error # None
    /\ response.resumes_found > 0
    /\ response.resumes_found < response.profiles_checked

\* the URL of a row: what its link gives, "" when it has none
RowURL(li) ==
    IF li.primary # Missing THEN li.primary
    ELSE IF li.fallback # Missing THEN li.fallback
    ELSE ""

\* the places of rows where a URL shows for the first time
FirstShown(rows) ==
    {i \in 1..Len(rows) :
        RowURL(rows[i]) # "" /\ \A j \in 1..(i - 1) : RowURL(rows[j]) # RowURL(rows[i])}

\* the first n distinct URLs of rows, in the order of rows
FirstDistinct(rows, n) ==
    LET shown == FirstShown(rows)
        nth(k) == CHOOSE i \in shown : Cardinality({j \in shown : j <= i}) = k
    IN  [k \in 1..Min(n, Cardinality(shown)) |-> [profile_url |-> RowURL(rows[nth(k)])]]

\* C13: the list search_and_collect_profiles returns is the first
\* max_profiles distinct URLs of the rows in the order they were rendered: a
\* URL seen before is skipped, a first occurrence keeps its place, nothing is
\* added at the cap; the same holds of the list while it is being built.
C13_FirstDistinctInRenderOrder ==
    /\ (pc = "collect" /\ call # <<>>) => profiles = FirstDistinct(ret, max_profiles)
    /\ (collect_returned /\ call # <<>>) => candidates = FirstDistinct(ret, max_profiles)

\* rows A, B, B, C with max_profiles = 3 gave A, B, C
C13_Witness ==
    /\ collect_returned
    /\ call # <<>>
    /\ max_profiles = 3
    /\ [k \in 1..Len(ret) |-> RowURL(ret[k])] = <<"A", "B", "B", "C">>
    /\ candidates = <<[profile_url |-> "A"], [profile_url |-> "B"], [profile_url |-> "C"]>>

\* what C14 says of one step of the collector
C14_Step ==
    pc = "collect" =>
        /\ (pc' = "collect" /\ rows_done' = 0) =>
               scroll_tries' = IF last_height' = last_height THEN scroll_tries + 1 ELSE 0
        /\ (scroll_tries = 30 /\ Len(profiles) < max_profiles) =>
               /\ collect_returned'
               /\ candidates' = profiles
               /\ exc' = NoExc \/ (candidates' = <<>> /\ exc'.type = "HTTPException")

\* C14: the stall counter goes up by one at a scroll that leaves the height
\* as it was and back to 0 at a scroll that changes it; when it is 30 with
\* fewer than max_profiles candidates collected, the collector's next step is
\* its return, of exactly the candidates found so far (an empty list
\* included), and it raises nothing (an empty list is the caller's 404).
C14_StallCounter == [][C14_Step]_vars

\* the collector returned fewer candidates than max_profiles, and at least one
C14_Witness ==
    /\ collect_returned
    /\ pc = "dispatch"
    /\ Len(candidates) > 0
    /\ Len(candidates) < max_profiles

\* the places of the anchors whose href matches, and among them those where
\* an href shows for the first time
MatchingPlaces(anchors) ==
    {i \in 1..Len(anchors) : anchors[i].kind = "href" /\ href_matches(anchors[i].href)}

FirstMatchingPlaces(anchors) ==
    {i \in MatchingPlaces(anchors) :
        \A j \in MatchingPlaces(anchors) : j < i => anchors[j].href # anchors[i].href}

\* the matching hrefs in page order, every later repetition removed
FirstSeenLinks(anchors) ==
    LET first == FirstMatchingPlaces(anchors)
        nth(k) == CHOOSE i \in first : Cardinality({j \in first : j <= i}) = k
    IN  [k \in 1..Cardinality(first) |-> anchors[nth(k)].href]

\* C15: a check that completes without error returns resume_links with no
\* duplicate entry, and when it found a resume they are the matching hrefs of
\* the page's anchors in page order with every later repetition removed.
C15_LinksFirstSeenOrder ==
    (ret # <<>> /\ ret[1].result.error = None) =>
        /\ NoDuplicates(ret[1].result.resume_links)
        /\ ret[1].result.resume_found =>
              ret[1].result.resume_links = FirstSeenLinks(call[1].env.anchors)

\* two anchors with the same matching href: one link is returned
C15_Witness ==
    /\ ret # <<>>
    /\ ret[1].result.error = None
    /\ Len(call[1].env.anchors) = 2
    /\ call[1].env.anchors[1].kind = "href"
    /\ call[1].env.anchors[1] = call[1].env.anchors[2]
    /\ ret[1].result.resume_links = <<call[1].env.anchors[1].href>>

\* x was done to the session, and before y was
DoneBefore(x, y) ==
    \E i, j \in 1..Len(ret) : i < j /\ ret[i] = x /\ ret[j] = y

LoginTransitions ==
    {<<"Unauthenticated", "CredentialsSubmitted">>,
     <<"Unauthenticated", "Failed">>,
     <<"CredentialsSubmitted", "AwaitingPostLoginSignal">>,
     <<"AwaitingPostLoginSignal", "Authenticated">>,
     <<"AwaitingPostLoginSignal", "Failed">>}

\* what C16 says of a state of login_linkedin
C16_State ==
    LET o == call[1].obs
        done == Range(ret)
    IN  /\ "submit" \in done =>
              /\ o.username /\ o.password
              /\ DoneBefore("wait username", "submit")
              /\ DoneBefore("wait password", "submit")
        /\ "submit" \notin done => login_state \in {"Unauthenticated", "Failed"}
        /\ "wait avatar" \in done =>
              /\ ~o.search
              /\ DoneBefore("timeout search", "wait avatar")
        /\ "wait search" \in done => DoneBefore("submit", "wait search")
        /\ login_state = "Authenticated" =>
              /\ pc = "returned"
              /\ "wait search" \in done
              /\ o.search \/ ("wait avatar" \in done /\ o.avatar)
        /\ login_state = "Failed" =>
              /\ pc = "raised"
              /\ \/ "submit" \notin done /\ ~(o.username /\ o.password)
                 \/ "wait avatar" \in done /\ ~o.search /\ ~o.avatar
        /\ pc \in {"returned", "raised"} => login_state \in {"Authenticated", "Failed"}

\* C16: login_linkedin moves Unauthenticated -> CredentialsSubmitted ->
\* AwaitingPostLoginSignal -> Authenticated or Failed (or Unauthenticated ->
\* Failed) and by no other transition.  The credentials are submitted only
\* after both fields were located, otherwise it fails without submitting; it
\* ends Authenticated only after submitting and seeing the search input or the
\* avatar, the avatar being waited for only after the wait for the search
\* input timed out; with neither it ends Failed.  In Authenticated and Failed
\* nothing more is done to the session: the state stays and no step of the
\* login is taken again.
C16_LoginStateMachine ==
    [][call # <<>> =>
         /\ C16_State'
         /\ login_state' # login_state => <<login_state, login_state'>> \in LoginTransitions
         /\ login_state \in {"Authenticated", "Failed"} =>
               (login_state' = login_state /\ ret' = ret)
         /\ \A x \in Range(ret') : Cardinality({i \in 1..Len(ret') : ret'[i] = x}) = 1]_vars

\* the search input never appeared, the avatar did: Authenticated after the
\* fallback wait
C16_Witness ==
    /\ call # <<>>
    /\ login_state = "Authenticated"
    /\ pc = "returned"
    /\ ~call[1].obs.search
    /\ ret = <<"get", "wait username", "wait password", "submit",
               "wait search", "timeout search", "wait avatar">>

\* the profile_url values of a list of candidates or results
urls_of(s) == [k \in 1..Len(s) |-> s[k].profile_url]

\* what C17 says of a state: the result list holds, once each, what the
\* calls gathered so far returned, each for its own candidate
C17_State ==
    /\ NoDuplicates(urls_of(results))
    /\ \A k \in 1..Len(results) :
         \E i \in DOMAIN workers :
            /\ workers[i].pc = "done" /\ workers[i].collected
            /\ candidates[i].profile_url = results[k].profile_url
            /\ results[k] = workers[i].result
    /\ \A i \in DOMAIN workers :
         (workers[i].collected /\ workers[i].exc = NoExc) =>
            workers[i].result \in Range(results)
    /\ (pc = "save" \/ (pc = "done" /\ http_status = 200)) =>
            /\ Len(results) = Len(candidates)
            /\ Range(urls_of(results)) = Range(urls_of(candidates))

\* ... and of a step: a call goes from queued to running to done and never
\* back, what it returned stays, and the result list only grows at its end
C17_Step ==
    /\ workers # <<>> => DOMAIN workers' = DOMAIN workers
    /\ \A i \in DOMAIN workers :
         /\ <<workers[i].pc, workers'[i].pc>> \in
               {<<"queued", "queued">>, <<"queued", "running">>, <<"queued", "done">>,
                <<"running", "running">>, <<"running", "done">>, <<"done", "done">>}
         /\ workers[i].pc = "done" => workers'[i].result = workers[i].result
         /\ workers[i].collected => workers'[i].collected
    /\ workers # <<>> => SubSeq(results', 1, Len(results)) = results

\* C17: every candidate is checked by one detect_resume_worker call, run
\* once, and gives one entry of the result list: in every interleaving and
\* completion order the profile_url values of the final result list are a
\* permutation of the candidates', no result is lost or entered twice, and a
\* call that failed is not run again.
C17_OneCheckOneResult == [][C17_Step /\ C17_State']_vars

\* three candidates, the last one's result gathered first, one check failed
C17_Witness ==
    /\ pc = "done"
    /\ http_status = 200
    /\ Len(candidates) = 3
    /\ results[1].profile_url = candidates[3].profile_url
    /\ \E k \in 1..Len(results) : results[k].error # None

\* C18: the results are saved and the completed response is returned only
\* after every dispatched check has ended: in no state is the run at the
\* save, or its completed response returned, while a detect_resume_worker
\* call of the run is queued or running.
C18_ResponseAfterAllChecks ==
    (pc = "save" \/ http_status = 200 \/ response # NoResponse) =>
        /\ Active = {}
        /\ Len(workers) = Len(candidates)

\* the run is about to save: three calls were dispatched and all have ended
C18_Witness ==
    /\ pc = "save"
    /\ Len(candidates) = 3
    /\ \A i \in DOMAIN workers : workers[i].pc = "done" /\ workers[i].collected

\* C19: under fair scheduling every dispatched check ends (with a result or
\* an error) and the run returns, also with more candidates than the pool has
\* threads and with checks that fail: eventually the run has ended with no
\* call queued or running and one call per candidate.
C19_EveryCheckCompletes ==
    <>(pc = "done" /\ Active = {} /\ Len(workers) = Len(candidates))

\* seven candidates on six threads, three of the checks failed: all seven
\* ended and the run returned its response
C19_Witness ==
    /\ pc = "done"
    /\ http_status = 200
    /\ Len(candidates) = MAX_WORKERS + 1
    /\ \A i \in DOMAIN workers : workers[i].pc = "done"
    /\ Cardinality({i \in DOMAIN workers : workers[i].raised}) = 3
    /\ response.profiles_checked = MAX_WORKERS + 1

\* the page's text shows the resume pattern: it has one of the tokens the
\* pattern matches, case ignored
PageShowsPattern(page) == \E i \in 1..Len(page) : page[i] \in {".PDF", "cv"}

\* C20: every result of detect_resume_worker whose page does not match the
\* resume pattern has resume_found false and resume_links empty, and
\* resume_links is non-empty only when resume_found is true.
C20_NoMatchNoLinks ==
    ret # <<>> =>
        /\ ~PageShowsPattern(call[1].env.page) =>
              (~ret[1].result.resume_found /\ ret[1].result.resume_links = <<>>)
        /\ ret[1].result.resume_links # <<>> => ret[1].result.resume_found

\* the page matches and has anchors, none of them with a matching href:
\* resume_found is true and resume_links empty
C20_Witness ==
    /\ ret # <<>>
    /\ PageShowsPattern(call[1].env.page)
    /\ call[1].env.anchors # <<>>
    /\ ret[1].result.resume_found
    /\ ret[1].result.resume_links = <<>>
    /\ ret[1].result.error = None

====
